---- MODULE Spec2Model ----
(***************************************************************************)
(* Thermometer: threshold evaluation with hysteresis.                      *)
(*                                                                         *)
(* The model follows the event-emitter Thermometer of src/src/thermometer.js *)
(* (the class the test suite imports, lines 213-538).                      *)
(*                                                                         *)
(* Temperatures are integers counting tenths of a degree Celsius           *)
(* (1.5 C is 15).  Threshold parameters are multiples of 0.5 C, so that    *)
(* alertTemp + fluctuation and alertTemp - fluctuation are exact in        *)
(* IEEE-754 doubles and every comparison of the code agrees with the       *)
(* comparison of the integers.  Fahrenheit values count fiftieths of a     *)
(* degree Fahrenheit, the unit in which c * 9 / 5 + 32 is an integer.      *)
(***************************************************************************)
EXTENDS Integers, Sequences, FiniteSets, TLC

\* ---------------------------------------------------------------------
\* JavaScript values that are not temperatures
\* ---------------------------------------------------------------------
Null == 99999
NaN == 99998
Throw == 99997
Undefined == 99996
Infinity == 99995
NegInfinity == 99994

\* ---------------------------------------------------------------------
\* Bounds of the model
\* ---------------------------------------------------------------------
MaxThresholds == 2
MaxLen == 3
MaxReads == 3
MaxListeners == 2
MaxCtor == 1
MaxOther == 1
MaxCalls == 2
MaxStarts == 3

\* ---------------------------------------------------------------------
\* Program constants
\* ---------------------------------------------------------------------
maxRetries == 5
DemoReads == 10

Directions == {"up", "down", "both"}

\* ---------------------------------------------------------------------
\* Input sets
\* ---------------------------------------------------------------------
Samples == {-10, -5, 0, 5, 10}
InvalidReadings == {Null, NaN}
\* arguments of new Threshold(alertTemp, fluctuation, direction)
ThresholdArgs ==
    {<<0, 5, "both">>, <<0, 0, "both">>, <<0, 5, "up">>, <<0, 5, "down">>,
     <<5, 5, "up">>, <<-5, 5, "down">>}
\* how many invalid readings a source yields in a row
InvalidRuns == {0, 1, maxRetries}
\* arguments of _readTemperature(maxRetries); maxRetries is its default
RetryArgs == {0, 1, 2, maxRetries}
\* arguments of new Threshold(alertTemp, fluctuation, direction), numbers or
\* not, directions known or not
CtorTemps == {-5, 0, 5, NaN, Infinity, NegInfinity, Null}
CtorFluctuations == {0, 5, NaN, Infinity, Null}
CtorDirections == Directions \cup {"sideways"}

VARIABLES
    objs,          \* heap of Threshold instances, in allocation order
    thresholds,    \* this.thresholds: sequence of references into objs
    currentTemp,   \* this.currentTemp
    previousTemp,  \* this.previousTemp
    op,            \* the last operation called on the Thermometer
    result,        \* how that operation ended: returned a value or threw
    sourceCalls,   \* number of times that operation invoked the source
    events,        \* 'threshold' events emitted by that operation, in order
    arg,           \* the argument that operation was called with
    listeners,     \* the 'threshold' listeners of this.emitter, in order of
                   \* registration: "ok" returns, "throws" throws
    delivered,     \* the listener calls of that operation, in order
    readings,      \* the readings array of externalTemperatureSource
    srcIdx,        \* the counter i of externalTemperatureSource
    demoIter,      \* the loop counter of the run: calls made so far
    fed,           \* the samples the run's calls accepted, in order
    console,       \* the 'threshold' events the run's listener received,
                   \* each with the number of the sample that caused it
    other,         \* a second Thermometer over the same heap: its
                   \* thresholds, currentTemp and previousTemp
    inflight       \* the checkThresholds calls that were started and not
                   \* awaited: for each its position, its local temp and
                   \* its local attempts

thermVars == <<objs, thresholds, currentTemp, previousTemp>>
callVars == <<op, result, sourceCalls, events, arg, delivered>>
demoVars == <<readings, srcIdx, demoIter, fed, console>>
extVars == <<other, inflight>>
vars == <<objs, thresholds, currentTemp, previousTemp, op, result,
          sourceCalls, events, arg, listeners, delivered, readings, srcIdx,
          demoIter, fed, console, other, inflight>>

\* ---------------------------------------------------------------------
\* JavaScript relational operators: null converts to 0, NaN compares false
\* ---------------------------------------------------------------------
ToNumber(x) == IF x = Null THEN 0 ELSE x

JsLt(a, b) == a # NaN /\ b # NaN /\ ToNumber(a) < ToNumber(b)

JsGt(a, b) == a # NaN /\ b # NaN /\ ToNumber(a) > ToNumber(b)

JsLe(a, b) == a # NaN /\ b # NaN /\ ToNumber(a) <= ToNumber(b)

JsGe(a, b) == a # NaN /\ b # NaN /\ ToNumber(a) >= ToNumber(b)

\* the fields of a Thermometer after new Thermometer(source)
NewThermometer ==
    [thresholds |-> <<>>, currentTemp |-> Null, previousTemp |-> Null]

\* how a call ends
Returned(v) == [kind |-> "returned", error |-> "none", value |-> v]

Threw(message) == [kind |-> "threw", error |-> message, value |-> Undefined]

\* faulty variant: the reading is not tested for NaN
IsValidReading_TypeofOnly(temp) == temp # Null /\ temp # Undefined

\* typeof temp === "number" && !Number.isNaN(temp)
IsValidReading(temp) == temp # Null /\ temp # Undefined /\ temp # NaN

\* ---------------------------------------------------------------------
\* class Threshold
\* ---------------------------------------------------------------------
Threshold(alertTemp, fluctuation, direction) ==
    [alertTemp |-> alertTemp, fluctuation |-> fluctuation,
     direction |-> direction, reached |-> FALSE]

\* typeof x === "number": true of NaN and of the infinities
IsNumberType(x) == x # Null /\ x # Undefined

\* the constructor with its error checking: an instance, or the error thrown
NewThreshold(alertTemp, fluctuation, direction) ==
    IF ~IsNumberType(alertTemp)
    THEN [kind |-> "threw",
          error |-> "Invalid alert temperature: must be a number."]
    ELSE IF ~IsNumberType(fluctuation)
         THEN [kind |-> "threw",
               error |-> "Invalid temperature fluctuation: must be a number."]
         ELSE IF direction \notin Directions
              THEN [kind |-> "threw",
                    error |-> "Invalid direction: must be one of up, down, both."]
              ELSE [kind |-> "returned", error |-> "none",
                    instance |-> Threshold(alertTemp, fluctuation, direction)]

\* ---------------------------------------------------------------------
\* class Thermometer: pure helpers
\* ---------------------------------------------------------------------
toFahrenheit(celsius) == celsius * 9 + 1600

\* faulty variant: the upper boundary of the band is left out
_isWithinFluctuation_HalfOpen(temp, threshold) ==
    /\ JsLt(temp, threshold.alertTemp + threshold.fluctuation)
    /\ JsGe(temp, threshold.alertTemp - threshold.fluctuation)

\* faulty variant: the band taken as the open interval
_isWithinFluctuation_Open(temp, threshold) ==
    /\ JsLt(temp, threshold.alertTemp + threshold.fluctuation)
    /\ JsGt(temp, threshold.alertTemp - threshold.fluctuation)

_isWithinFluctuation(temp, threshold) ==
    /\ JsLe(temp, threshold.alertTemp + threshold.fluctuation)
    /\ JsGe(temp, threshold.alertTemp - threshold.fluctuation)

\* faulty variant: "up" without the test of the previous sample
_isThresholdReached_UpAlways(threshold, prev, cur) ==
    CASE threshold.direction = "down" -> JsGt(prev, threshold.alertTemp)
      [] threshold.direction = "up" -> TRUE
      [] threshold.direction = "both" ->
            \/ JsLt(prev, threshold.alertTemp) /\ JsGe(cur, threshold.alertTemp)
            \/ JsGt(prev, threshold.alertTemp) /\ JsLe(cur, threshold.alertTemp)
      [] OTHER -> FALSE

\* faulty variant: "both" fires on any in-band sample
_isThresholdReached_BothAlways(threshold, prev, cur) ==
    CASE threshold.direction = "down" -> JsGt(prev, threshold.alertTemp)
      [] threshold.direction = "up" -> JsLt(prev, threshold.alertTemp)
      [] threshold.direction = "both" -> TRUE
      [] OTHER -> FALSE

\* faulty variant: "both" without the downward crossing
_isThresholdReached_BothUpOnly(threshold, prev, cur) ==
    CASE threshold.direction = "down" -> JsGt(prev, threshold.alertTemp)
      [] threshold.direction = "up" -> JsLt(prev, threshold.alertTemp)
      [] threshold.direction = "both" ->
            JsLt(prev, threshold.alertTemp) /\ JsGe(cur, threshold.alertTemp)
      [] OTHER -> FALSE

_isThresholdReached(threshold, prev, cur) ==
    CASE threshold.direction = "down" -> JsGt(prev, threshold.alertTemp)
      [] threshold.direction = "up" -> JsLt(prev, threshold.alertTemp)
      [] threshold.direction = "both" ->
            \/ JsLt(prev, threshold.alertTemp) /\ JsGe(cur, threshold.alertTemp)
            \/ JsGt(prev, threshold.alertTemp) /\ JsLe(cur, threshold.alertTemp)
      [] OTHER -> FALSE

\* faulty variant: the event reports the alert temperature of the threshold
_createAlertEvent_AlertTemp(temp, id, threshold) ==
    [threshold |-> id, tempC |-> threshold.alertTemp,
     tempF |-> toFahrenheit(threshold.alertTemp),
     direction |-> threshold.direction]

_createAlertEvent(temp, id, threshold) ==
    [threshold |-> id, tempC |-> temp, tempF |-> toFahrenheit(temp),
     direction |-> threshold.direction]

\* this.emitter.emit("threshold", event): the listeners ls are called in the
\* order of their registration; an exception of a listener leaves emit at
\* once, so that the listeners after it are not called
FirstThrowing(ls) ==
    IF \E l \in 1..Len(ls) : ls[l] = "throws"
    THEN CHOOSE l \in 1..Len(ls) :
            /\ ls[l] = "throws"
            /\ \A m \in 1..(l - 1) : ls[m] # "throws"
    ELSE 0

emit(ls, event) ==
    LET last == IF FirstThrowing(ls) = 0 THEN Len(ls) ELSE FirstThrowing(ls)
    IN  [calls |-> [l \in 1..last |-> [listener |-> l, event |-> event]],
         thrown |-> FirstThrowing(ls) # 0]

\* faulty variant: the event is emitted but the threshold is left armed
_handleThresholdReached_NoDisarm(st, id, temp) ==
    LET event == _createAlertEvent(temp, id, st.objs[id])
        sent == emit(st.listeners, event)
    IN  [st EXCEPT !.events = Append(@, event),
                   !.delivered = @ \o sent.calls,
                   !.thrown = sent.thrown]

\* st = [objs, events, delivered, thrown, listeners]: the heap, the events
\* emitted and the listener calls made so far, whether a listener has thrown,
\* and the listeners of the emitter
_handleThresholdReached(st, id, temp) ==
    LET event == _createAlertEvent(temp, id, st.objs[id])
        sent == emit(st.listeners, event)
    IN  [st EXCEPT !.objs[id].reached = TRUE,
                   !.events = Append(@, event),
                   !.delivered = @ \o sent.calls,
                   !.thrown = sent.thrown]

\* faulty variant: the reached flag is not consulted before firing
CheckOne_AlwaysArmed(st, id, prev, cur) ==
    LET threshold == st.objs[id]
        withinFluctuation == _isWithinFluctuation(cur, threshold)
    IN  IF withinFluctuation /\ _isThresholdReached(threshold, prev, cur)
        THEN _handleThresholdReached(st, id, cur)
        ELSE IF threshold.reached /\ ~withinFluctuation
             THEN [st EXCEPT !.objs[id].reached = FALSE]
             ELSE st

\* faulty variant: a disarmed threshold is armed again by any sample on which
\* it does not fire
CheckOne_RearmInBand(st, id, prev, cur) ==
    LET threshold == st.objs[id]
        withinFluctuation == _isWithinFluctuation(cur, threshold)
    IN  IF /\ ~threshold.reached
           /\ withinFluctuation
           /\ _isThresholdReached(threshold, prev, cur)
        THEN _handleThresholdReached(st, id, cur)
        ELSE IF threshold.reached
             THEN [st EXCEPT !.objs[id].reached = FALSE]
             ELSE st

\* faulty variant: a disarmed threshold is never armed again
CheckOne_NoRearm(st, id, prev, cur) ==
    LET threshold == st.objs[id]
        withinFluctuation == _isWithinFluctuation(cur, threshold)
    IN  IF /\ ~threshold.reached
           /\ withinFluctuation
           /\ _isThresholdReached(threshold, prev, cur)
        THEN _handleThresholdReached(st, id, cur)
        ELSE st

\* the body of the for-loop of checkThresholds for one element
\* faulty variant: a crossing fires also when the sample is outside the band
CheckOne_FireOutOfBand(st, id, prev, cur) ==
    LET threshold == st.objs[id]
        withinFluctuation == _isWithinFluctuation(cur, threshold)
    IN  IF /\ ~threshold.reached
           /\ _isThresholdReached(threshold, prev, cur)
        THEN _handleThresholdReached(st, id, cur)
        ELSE IF threshold.reached /\ ~withinFluctuation
             THEN [st EXCEPT !.objs[id].reached = FALSE]
             ELSE st

CheckOne(st, id, prev, cur) ==
    LET threshold == st.objs[id]
        withinFluctuation == _isWithinFluctuation(cur, threshold)
    IN  IF /\ ~threshold.reached
           /\ withinFluctuation
           /\ _isThresholdReached(threshold, prev, cur)
        THEN _handleThresholdReached(st, id, cur)
        ELSE IF threshold.reached /\ ~withinFluctuation
             THEN [st EXCEPT !.objs[id].reached = FALSE]
             ELSE st

\* faulty variant: the collection is walked from its end
RECURSIVE CheckLoop_Reverse(_, _, _, _, _)
CheckLoop_Reverse(st, ths, k, prev, cur) ==
    IF k > Len(ths) \/ st.thrown THEN st
    ELSE CheckLoop_Reverse(CheckOne(st, ths[Len(ths) + 1 - k], prev, cur),
                           ths, k + 1, prev, cur)

\* faulty variant: the walk ends at the first threshold that fires
RECURSIVE CheckLoop_StopAtFirst(_, _, _, _, _)
CheckLoop_StopAtFirst(st, ths, k, prev, cur) ==
    IF k > Len(ths) \/ st.thrown \/ st.events # <<>> THEN st
    ELSE CheckLoop_StopAtFirst(CheckOne(st, ths[k], prev, cur),
                               ths, k + 1, prev, cur)

RECURSIVE CheckLoop(_, _, _, _, _)
CheckLoop(st, ths, k, prev, cur) ==
    IF k > Len(ths) \/ st.thrown THEN st
    ELSE CheckLoop(CheckOne(st, ths[k], prev, cur), ths, k + 1, prev, cur)

\* faulty variant: a failure of the source is taken for an invalid reading
RECURSIVE ReadLoop_SwallowThrow(_, _, _)
ReadLoop_SwallowThrow(up, attempts, retries) ==
    IF attempts >= retries
    THEN [kind |-> "threw", error |-> "No valid temperature reading",
          value |-> Undefined, calls |-> attempts]
    ELSE LET temp == up[attempts + 1]
         IN  IF temp # Throw /\ IsValidReading(temp)
             THEN [kind |-> "returned", error |-> "none", value |-> temp,
                   calls |-> attempts + 1]
             ELSE ReadLoop_SwallowThrow(up, attempts + 1, retries)

\* faulty variant: the loop gives up one attempt early
RECURSIVE ReadLoop_OneShort(_, _, _)
ReadLoop_OneShort(up, attempts, retries) ==
    IF attempts + 1 >= retries
    THEN [kind |-> "threw", error |-> "No valid temperature reading",
          value |-> Undefined, calls |-> attempts]
    ELSE LET temp == up[attempts + 1]
         IN  IF temp = Throw
             THEN [kind |-> "threw", error |-> "Temperature source error",
                   value |-> Undefined, calls |-> attempts + 1]
             ELSE IF IsValidReading(temp)
                  THEN [kind |-> "returned", error |-> "none", value |-> temp,
                        calls |-> attempts + 1]
                  ELSE ReadLoop_OneShort(up, attempts + 1, retries)

\* faulty variant: an invalid reading ends the call, the source is not
\* polled again
ReadLoop_NoRetry(up, attempts, retries) ==
    IF attempts >= retries
    THEN [kind |-> "threw", error |-> "No valid temperature reading",
          value |-> Undefined, calls |-> attempts]
    ELSE LET temp == up[attempts + 1]
         IN  IF temp = Throw
             THEN [kind |-> "threw", error |-> "Temperature source error",
                   value |-> Undefined, calls |-> attempts + 1]
             ELSE IF IsValidReading(temp)
                  THEN [kind |-> "returned", error |-> "none", value |-> temp,
                        calls |-> attempts + 1]
                  ELSE [kind |-> "threw",
                        error |-> "No valid temperature reading",
                        value |-> Undefined, calls |-> attempts + 1]

\* _readTemperature: up[k] is what the k-th invocation of the source yields
RECURSIVE ReadLoop(_, _, _)
ReadLoop(up, attempts, retries) ==
    IF attempts >= retries
    THEN [kind |-> "threw", error |-> "No valid temperature reading",
          value |-> Undefined, calls |-> attempts]
    ELSE LET temp == up[attempts + 1]
         IN  IF temp = Throw
             THEN [kind |-> "threw", error |-> "Temperature source error",
                   value |-> Undefined, calls |-> attempts + 1]
             ELSE IF IsValidReading(temp)
                  THEN [kind |-> "returned", error |-> "none", value |-> temp,
                        calls |-> attempts + 1]
                  ELSE ReadLoop(up, attempts + 1, retries)

_readTemperature(up) == ReadLoop(up, 0, maxRetries)



\* ---------------------------------------------------------------------
\* Thermometer.checkThresholds(); up[k] is the k-th value the source would
\* yield during this call
\* ---------------------------------------------------------------------
\* faulty variant: the emptiness of the collection is not checked
NoThresholds_Never(ths) == FALSE

\* this.thresholds.length === 0
NoThresholds(ths) == Len(ths) = 0

CheckThresholdsBody(up) ==
    /\ op' = "checkThresholds"
    /\ arg' = Undefined
    /\ UNCHANGED listeners
    /\ IF NoThresholds(thresholds)
       THEN /\ result' = Threw("No thresholds defined")
            /\ sourceCalls' = 0
            /\ events' = <<>>
            /\ delivered' = <<>>
            /\ UNCHANGED thermVars
       ELSE LET read == _readTemperature(up)
            IN  /\ sourceCalls' = read.calls
                /\ IF read.kind = "threw"
                   THEN /\ result' = Threw(read.error)
                        /\ events' = <<>>
                        /\ delivered' = <<>>
                        /\ UNCHANGED thermVars
                   ELSE LET prev == currentTemp
                            cur == read.value
                            st == CheckLoop([objs |-> objs, events |-> <<>>,
                                             delivered |-> <<>>,
                                             thrown |-> FALSE,
                                             listeners |-> listeners],
                                            thresholds, 1, prev, cur)
                        IN  /\ previousTemp' = prev
                            /\ currentTemp' = cur
                            /\ IF ~IsValidReading(cur)
                               THEN /\ result' = Returned(Null)
                                    /\ events' = <<>>
                                    /\ delivered' = <<>>
                                    /\ UNCHANGED objs
                               ELSE /\ result' = IF st.thrown
                                                 THEN Threw("listener error")
                                                 ELSE Returned(Undefined)
                                    /\ objs' = st.objs
                                    /\ events' = st.events
                                    /\ delivered' = st.delivered
                            /\ UNCHANGED thresholds

\* what an arbitrary source may yield during one call: k invalid readings,
\* then a temperature or a failure
Upcoming ==
    {[j \in 1..maxRetries |-> IF j <= k THEN bad ELSE r] :
        k \in InvalidRuns, bad \in InvalidReadings, r \in Samples \cup {Throw}}

CheckThresholds ==
    /\ \E up \in Upcoming : CheckThresholdsBody(up)
    /\ UNCHANGED demoVars
    /\ UNCHANGED extVars

\* ---------------------------------------------------------------------
\* Thermometer.addThreshold(threshold); os is the heap at the call, ref the
\* argument: a reference to an instance, or 0 for a value that is no Threshold
\* ---------------------------------------------------------------------
\* faulty variant: the threshold is put in front of the collection
AddThresholdBody_Unshift(os, ref) ==
    /\ op' = "addThreshold"
    /\ arg' = ref
    /\ sourceCalls' = 0
    /\ events' = <<>>
    /\ delivered' = <<>>
    /\ UNCHANGED <<currentTemp, previousTemp, listeners>>
    /\ IF ref \in 1..Len(os)
       THEN /\ objs' = os
            /\ thresholds' = <<ref>> \o thresholds
            /\ result' = Returned(ref)
       ELSE /\ UNCHANGED <<objs, thresholds>>
            /\ result' = Threw("Invalid threshold format. Must be an instance of Threshold.")

AddThresholdBody(os, ref) ==
    /\ op' = "addThreshold"
    /\ arg' = ref
    /\ sourceCalls' = 0
    /\ events' = <<>>
    /\ delivered' = <<>>
    /\ UNCHANGED <<currentTemp, previousTemp, listeners>>
    /\ IF ref \in 1..Len(os)
       THEN /\ objs' = os
            /\ thresholds' = Append(thresholds, ref)
            /\ result' = Returned(ref)
       ELSE /\ UNCHANGED <<objs, thresholds>>
            /\ result' = Threw("Invalid threshold format. Must be an instance of Threshold.")

\* thermometer.addThreshold(new Threshold(alertTemp, fluctuation, direction))
AddNewThreshold ==
    /\ Len(thresholds) < MaxThresholds
    /\ \E args \in ThresholdArgs :
          AddThresholdBody(Append(objs, Threshold(args[1], args[2], args[3])),
                           Len(objs) + 1)
    /\ UNCHANGED demoVars
    /\ UNCHANGED extVars

\* thermometer.addThreshold(x) for an instance that exists already, or for a
\* value that is not a Threshold
AddThreshold ==
    /\ Len(thresholds) < MaxThresholds
    /\ \E ref \in 0..Len(objs) : AddThresholdBody(objs, ref)
    /\ UNCHANGED demoVars
    /\ UNCHANGED extVars

\* ---------------------------------------------------------------------
\* new Thermometer(source): no thresholds, no samples
\* ---------------------------------------------------------------------
Init ==
    /\ objs = <<>>
    /\ thresholds = <<>>
    /\ currentTemp = Null
    /\ previousTemp = Null
    /\ op = "constructor"
    /\ result = Returned(Undefined)
    /\ sourceCalls = 0
    /\ events = <<>>
    /\ arg = Undefined
    /\ listeners = <<>>
    /\ delivered = <<>>
    /\ readings = <<>>
    /\ srcIdx = 0
    /\ demoIter = 0
    /\ fed = <<>>
    /\ console = <<>>
    /\ other = NewThermometer
    /\ inflight = <<>>

Next == CheckThresholds \/ AddNewThreshold \/ AddThreshold

Spec == Init /\ [][Next]_vars

\* ---------------------------------------------------------------------
\* runDemo: a Thermometer over externalTemperatureSource (a readings array
\* read cyclically), a listener on 'threshold', and DemoReads calls of
\* checkThresholds one after the other
\* ---------------------------------------------------------------------
FreezingReadings == <<15, 10, 5, 0, -5, 0, -5, 0, 5, 0>>
BoilingReadings == <<900, 950, 990, 1000, 1005, 1000, 990, 1000, 1100, 1000>>
NullReadings == <<15, Null, 10, 5, 0, -5, 0, -5, 0, 5, 0>>
RearmReadings == <<90, 102, 120, 98, 103>>

ShortReadings ==
    UNION {[1..n -> Samples \cup {Null}] : n \in 1..MaxLen}

\* a source that fails after a few readings
FailingReadings ==
    {Append(s, Throw) : s \in [1..MaxLen -> {-10, 0, Null}]}

Scripts ==
    {FreezingReadings, BoilingReadings, NullReadings, RearmReadings}
        \cup ShortReadings \cup FailingReadings

\* the thresholds arrays handed to the constructor
ThresholdArrays ==
    {<<Threshold(args[1], args[2], args[3])>> : args \in ThresholdArgs}
    \cup {<<Threshold(100, 5, "up")>>,
          <<Threshold(0, 5, "both"), Threshold(1000, 5, "up")>>,
          <<Threshold(0, 5, "both"), Threshold(1000, 5, "both")>>,
          <<Threshold(0, 5, "up"), Threshold(0, 5, "both")>>,
          <<Threshold(0, 5, "both"), Threshold(0, 5, "up")>>}

\* externalTemperatureSource: the values the next calls of the source yield
SourceUpcoming ==
    [k \in 1..maxRetries |-> readings[((srcIdx + k - 1) % Len(readings)) + 1]]

InitDemo ==
    /\ objs \in ThresholdArrays
    /\ \E alias \in BOOLEAN :
          thresholds = [k \in 1..(Len(objs) + IF alias THEN 1 ELSE 0) |->
                           IF k <= Len(objs) THEN k ELSE 1]
    /\ currentTemp = Null
    /\ previousTemp = Null
    /\ op = "constructor"
    /\ result = Returned(Undefined)
    /\ sourceCalls = 0
    /\ events = <<>>
    /\ arg = Undefined
    /\ listeners = <<"ok">>
    /\ delivered = <<>>
    /\ readings \in Scripts
    /\ srcIdx = 0
    /\ demoIter = 0
    /\ fed = <<>>
    /\ console = <<>>
    /\ other = NewThermometer
    /\ inflight = <<>>

DemoStep ==
    /\ demoIter < DemoReads
    /\ CheckThresholdsBody(SourceUpcoming)
    /\ srcIdx' = srcIdx + sourceCalls'
    /\ demoIter' = demoIter + 1
    /\ fed' = IF result'.kind = "returned" THEN Append(fed, currentTemp') ELSE fed
    /\ console' = console \o [k \in 1..Len(delivered') |->
                                 [sample |-> Len(fed'),
                                  event |-> delivered'[k].event]]
    /\ UNCHANGED readings
    /\ UNCHANGED extVars

NextDemo == DemoStep

SpecDemo == InitDemo /\ [][NextDemo]_vars

\* ---------------------------------------------------------------------
\* A Thermometer constructed with thresholds, on which listeners are
\* registered, over an arbitrary source
\* ---------------------------------------------------------------------
ListenerKinds == {"ok", "throws"}

\* thermometer.on("threshold", listener)
On ==
    /\ Len(listeners) < MaxListeners
    /\ \E kind \in ListenerKinds : listeners' = Append(listeners, kind)
    /\ op' = "on"
    /\ arg' = Undefined
    /\ result' = Returned(Undefined)
    /\ sourceCalls' = 0
    /\ events' = <<>>
    /\ delivered' = <<>>
    /\ UNCHANGED thermVars
    /\ UNCHANGED demoVars
    /\ UNCHANGED extVars

InitListen ==
    /\ objs \in ThresholdArrays
    /\ \E alias \in BOOLEAN :
          thresholds = [k \in 1..(Len(objs) + IF alias THEN 1 ELSE 0) |->
                           IF k <= Len(objs) THEN k ELSE 1]
    /\ currentTemp = Null
    /\ previousTemp = Null
    /\ op = "constructor"
    /\ result = Returned(Undefined)
    /\ sourceCalls = 0
    /\ events = <<>>
    /\ arg = Undefined
    /\ listeners = <<>>
    /\ delivered = <<>>
    /\ readings = <<>>
    /\ srcIdx = 0
    /\ demoIter = 0
    /\ fed = <<>>
    /\ console = <<>>
    /\ other = NewThermometer
    /\ inflight = <<>>

NextListen == On \/ CheckThresholds

SpecListen == InitListen /\ [][NextListen]_vars

\* ---------------------------------------------------------------------
\* Two Thermometers: the first constructed with one threshold, the second
\* with none; thresholds are added to the second, instances the first holds
\* among them, and both evaluate samples of their sources
\* ---------------------------------------------------------------------
TwoArgs == {<<0, 5, "both">>, <<0, 5, "up">>}

\* other.addThreshold(x): os is the heap at the call, ref the argument
OtherAddThresholdBody(os, ref) ==
    /\ op' = "other.addThreshold"
    /\ arg' = ref
    /\ sourceCalls' = 0
    /\ events' = <<>>
    /\ delivered' = <<>>
    /\ UNCHANGED <<thresholds, currentTemp, previousTemp, listeners, inflight>>
    /\ IF ref \in 1..Len(os)
       THEN /\ objs' = os
            /\ other' = [other EXCEPT !.thresholds = Append(@, ref)]
            /\ result' = Returned(ref)
       ELSE /\ UNCHANGED <<objs, other>>
            /\ result' = Threw("Invalid threshold format. Must be an instance of Threshold.")

\* other.addThreshold(t) for an instance t that exists, the first
\* Thermometer's among them, or for a value that is no Threshold
OtherAddThreshold ==
    /\ Len(other.thresholds) < MaxOther
    /\ \E ref \in 0..Len(objs) : OtherAddThresholdBody(objs, ref)
    /\ UNCHANGED demoVars

\* other.addThreshold(new Threshold(alertTemp, fluctuation, direction))
OtherAddNewThreshold ==
    /\ Len(other.thresholds) < MaxOther
    /\ \E args \in TwoArgs :
          OtherAddThresholdBody(
              Append(objs, Threshold(args[1], args[2], args[3])),
              Len(objs) + 1)
    /\ UNCHANGED demoVars

\* other.checkThresholds(); the second Thermometer has no listeners
OtherCheckThresholdsBody(up) ==
    /\ op' = "other.checkThresholds"
    /\ arg' = Undefined
    /\ delivered' = <<>>
    /\ UNCHANGED <<thresholds, currentTemp, previousTemp, listeners, inflight>>
    /\ IF NoThresholds(other.thresholds)
       THEN /\ result' = Threw("No thresholds defined")
            /\ sourceCalls' = 0
            /\ events' = <<>>
            /\ UNCHANGED <<objs, other>>
       ELSE LET read == _readTemperature(up)
            IN  /\ sourceCalls' = read.calls
                /\ IF read.kind = "threw"
                   THEN /\ result' = Threw(read.error)
                        /\ events' = <<>>
                        /\ UNCHANGED <<objs, other>>
                   ELSE LET prev == other.currentTemp
                            cur == read.value
                            st == CheckLoop([objs |-> objs, events |-> <<>>,
                                             delivered |-> <<>>,
                                             thrown |-> FALSE,
                                             listeners |-> <<>>],
                                            other.thresholds, 1, prev, cur)
                        IN  /\ other' = [other EXCEPT !.previousTemp = prev,
                                                      !.currentTemp = cur]
                            /\ result' = Returned(Undefined)
                            /\ objs' = st.objs
                            /\ events' = st.events

OtherCheckThresholds ==
    /\ \E up \in Upcoming : OtherCheckThresholdsBody(up)
    /\ UNCHANGED demoVars

InitTwo ==
    /\ objs \in {<<Threshold(args[1], args[2], args[3])>> : args \in TwoArgs}
    /\ thresholds = <<1>>
    /\ currentTemp = Null
    /\ previousTemp = Null
    /\ op = "constructor"
    /\ result = Returned(Undefined)
    /\ sourceCalls = 0
    /\ events = <<>>
    /\ arg = Undefined
    /\ listeners = <<>>
    /\ delivered = <<>>
    /\ readings = <<>>
    /\ srcIdx = 0
    /\ demoIter = 0
    /\ fed = <<>>
    /\ console = <<>>
    /\ other = NewThermometer
    /\ inflight = <<>>

NextTwo ==
    \/ CheckThresholds
    \/ OtherAddThreshold
    \/ OtherAddNewThreshold
    \/ OtherCheckThresholds

SpecTwo == InitTwo /\ [][NextTwo]_vars

\* ---------------------------------------------------------------------
\* Overlapping calls: checkThresholds is called again before the promise of
\* an earlier call has settled.  A call runs up to its first await at once;
\* it continues when the promise of the source settles (StoreSample) and
\* again when the promise of _readTemperature has settled (Evaluate).  The
\* continuations of Evaluate are queued at the moment the sample is stored,
\* so they run in the order of the stores.
\* ---------------------------------------------------------------------
Idle ==
    [pc |-> "idle", temp |-> Undefined, attempts |-> 0, prev |-> Undefined,
     rank |-> 0]

Pending == [kind |-> "pending", error |-> "none", value |-> Undefined]

\* what the source yields to overlapping calls, and the thresholds arrays
\* their Thermometer is constructed with
OverlapReadings == {-10, 0, 10, Null, Throw}

OverlapArrays ==
    {<<Threshold(0, 5, "up")>>, <<Threshold(0, 5, "down")>>,
     <<Threshold(0, 5, "both")>>,
     <<Threshold(0, 5, "up"), Threshold(0, 5, "both")>>}

\* the calls whose sample is stored and whose loop has not run yet
Waiting == {c \in 1..Len(inflight) : inflight[c].pc = "stored"}

\* checkThresholds(): the emptiness test, then _readTemperature up to
\* await Promise.resolve(this.source())
StartCall(c) ==
    /\ inflight[c].pc = "idle"
    /\ demoIter < MaxStarts
    /\ demoIter' = demoIter + 1
    /\ op' = "checkThresholds"
    /\ arg' = Undefined
    /\ events' = <<>>
    /\ delivered' = <<>>
    /\ IF NoThresholds(thresholds)
       THEN /\ result' = Threw("No thresholds defined")
            /\ sourceCalls' = 0
            /\ UNCHANGED inflight
       ELSE /\ result' = Pending
            /\ sourceCalls' = 1
            /\ inflight' = [inflight EXCEPT ![c] =
                                [Idle EXCEPT !.pc = "reading", !.attempts = 1]]
    /\ UNCHANGED <<thermVars, listeners, other>>
    /\ UNCHANGED <<readings, srcIdx, fed, console>>

\* the promise of the source settles with temp: the rest of the iteration
\* of the while loop, and the next invocation of the source if it goes on
StoreSample(c, temp) ==
    /\ inflight[c].pc = "reading"
    /\ op' = "checkThresholds"
    /\ arg' = Undefined
    /\ events' = <<>>
    /\ delivered' = <<>>
    /\ IF temp = Throw
       THEN /\ result' = Threw("Temperature source error")
            /\ sourceCalls' = inflight[c].attempts
            /\ inflight' = [inflight EXCEPT ![c] = Idle]
            /\ UNCHANGED <<currentTemp, previousTemp>>
       ELSE IF IsValidReading(temp)
            THEN /\ previousTemp' = currentTemp
                 /\ currentTemp' = temp
                 /\ result' = Pending
                 /\ sourceCalls' = inflight[c].attempts
                 /\ inflight' = [inflight EXCEPT ![c] =
                                     [pc |-> "stored", temp |-> temp,
                                      attempts |-> inflight[c].attempts,
                                      prev |-> currentTemp,
                                      rank |-> Cardinality(Waiting) + 1]]
            ELSE IF inflight[c].attempts < maxRetries
                 THEN /\ result' = Pending
                      /\ sourceCalls' = inflight[c].attempts + 1
                      /\ inflight' = [inflight EXCEPT ![c].attempts = @ + 1]
                      /\ UNCHANGED <<currentTemp, previousTemp>>
                 ELSE /\ result' = Threw("No valid temperature reading")
                      /\ sourceCalls' = inflight[c].attempts
                      /\ inflight' = [inflight EXCEPT ![c] = Idle]
                      /\ UNCHANGED <<currentTemp, previousTemp>>
    /\ UNCHANGED <<objs, thresholds, listeners, other>>
    /\ UNCHANGED demoVars

\* the promise of _readTemperature has settled: the loop over the
\* thresholds with the local temp and with this.previousTemp as it is now
Evaluate(c) ==
    /\ inflight[c].pc = "stored"
    /\ inflight[c].rank = 1
    /\ LET st == CheckLoop([objs |-> objs, events |-> <<>>,
                            delivered |-> <<>>, thrown |-> FALSE,
                            listeners |-> listeners],
                           thresholds, 1, previousTemp, inflight[c].temp)
       IN  /\ objs' = st.objs
           /\ events' = st.events
           /\ delivered' = st.delivered
           /\ result' = IF st.thrown THEN Threw("listener error")
                                     ELSE Returned(Undefined)
    /\ op' = "checkThresholds"
    /\ arg' = Undefined
    /\ sourceCalls' = inflight[c].attempts
    /\ inflight' = [d \in 1..Len(inflight) |->
                       IF d = c THEN Idle
                       ELSE IF inflight[d].pc = "stored"
                            THEN [inflight[d] EXCEPT !.rank = @ - 1]
                            ELSE inflight[d]]
    /\ UNCHANGED <<thresholds, currentTemp, previousTemp, listeners, other>>
    /\ UNCHANGED demoVars

InitOverlap ==
    /\ objs \in OverlapArrays
    /\ thresholds = [k \in 1..Len(objs) |-> k]
    /\ currentTemp = Null
    /\ previousTemp = Null
    /\ op = "constructor"
    /\ result = Returned(Undefined)
    /\ sourceCalls = 0
    /\ events = <<>>
    /\ arg = Undefined
    /\ listeners = <<>>
    /\ delivered = <<>>
    /\ readings = <<>>
    /\ srcIdx = 0
    /\ demoIter = 0
    /\ fed = <<>>
    /\ console = <<>>
    /\ other = NewThermometer
    /\ inflight = [c \in 1..MaxCalls |-> Idle]

NextOverlap ==
    \/ \E c \in 1..MaxCalls : StartCall(c)
    \/ \E c \in 1..MaxCalls :
          \E temp \in OverlapReadings : StoreSample(c, temp)
    \/ \E c \in 1..MaxCalls : Evaluate(c)

SpecOverlap == InitOverlap /\ [][NextOverlap]_vars

\* ---------------------------------------------------------------------
\* The Thermometer with readTemperature (src/src/thermometer.js, lines
\* 1-211): readTemperature reads the source once, emits 'reading' and calls
\* its synchronous checkThresholds.  _isWithinFluctuation and
\* _handleThresholdReached are the same code in both classes.
\* ---------------------------------------------------------------------
ReadingIsThresholdReached(threshold, prev) ==
    CASE threshold.direction = "down" -> JsGt(prev, threshold.alertTemp)
      [] threshold.direction = "up" -> JsLt(prev, threshold.alertTemp)
      [] threshold.direction = "both" -> TRUE
      [] OTHER -> FALSE

ReadingCheckOne(st, id, prev, cur) ==
    LET threshold == st.objs[id]
        withinFluctuation == _isWithinFluctuation(cur, threshold)
    IN  IF /\ ~threshold.reached
           /\ withinFluctuation
           /\ ReadingIsThresholdReached(threshold, prev)
        THEN _handleThresholdReached(st, id, cur)
        ELSE IF threshold.reached /\ ~withinFluctuation
             THEN [st EXCEPT !.objs[id].reached = FALSE]
             ELSE st

RECURSIVE ReadingCheckLoop(_, _, _, _, _)
ReadingCheckLoop(st, ths, k, prev, cur) ==
    IF k > Len(ths) \/ st.thrown THEN st
    ELSE ReadingCheckLoop(ReadingCheckOne(st, ths[k], prev, cur),
                          ths, k + 1, prev, cur)

\* readTemperature(); temp is what the source yields
readTemperature(temp) ==
    /\ op' = "readTemperature"
    /\ arg' = Undefined
    /\ sourceCalls' = 1
    /\ previousTemp' = currentTemp
    /\ UNCHANGED <<thresholds, listeners>>
    /\ IF temp = Throw
       THEN /\ result' = Returned(Null)
            /\ events' = <<>>
            /\ delivered' = <<>>
            /\ UNCHANGED <<currentTemp, objs>>
       ELSE /\ currentTemp' = temp
            /\ IF ~IsValidReading(temp)
               THEN /\ result' = Threw("Invalid temperature reading: must be a number.")
                    /\ events' = <<>>
                    /\ delivered' = <<>>
                    /\ UNCHANGED objs
               ELSE IF Len(thresholds) > 0
                    THEN LET st == ReadingCheckLoop(
                                       [objs |-> objs, events |-> <<>>,
                                        delivered |-> <<>>, thrown |-> FALSE,
                                        listeners |-> listeners],
                                       thresholds, 1, currentTemp, temp)
                         IN  /\ objs' = st.objs
                             /\ events' = st.events
                             /\ delivered' = st.delivered
                             /\ result' = IF st.thrown
                                          THEN Threw("listener error")
                                          ELSE Returned(temp)
                    ELSE /\ result' = Returned(temp)
                         /\ events' = <<>>
                         /\ delivered' = <<>>
                         /\ UNCHANGED objs

ReadTemperature ==
    /\ \E temp \in Samples \cup InvalidReadings \cup {Throw} :
          readTemperature(temp)
    /\ UNCHANGED demoVars
    /\ UNCHANGED extVars

InitReading ==
    /\ objs \in {<<>>} \cup
                 {<<Threshold(args[1], args[2], args[3])>> : args \in ThresholdArgs}
    /\ thresholds = [k \in 1..Len(objs) |-> k]
    /\ currentTemp = Null
    /\ previousTemp = Null
    /\ op = "constructor"
    /\ result = Returned(Undefined)
    /\ sourceCalls = 0
    /\ events = <<>>
    /\ arg = Undefined
    /\ listeners = <<>>
    /\ delivered = <<>>
    /\ readings = <<>>
    /\ srcIdx = 0
    /\ demoIter = 0
    /\ fed = <<>>
    /\ console = <<>>
    /\ other = NewThermometer
    /\ inflight = <<>>

NextReading == ReadTemperature

SpecReading == InitReading /\ [][NextReading]_vars

\* ---------------------------------------------------------------------
\* The Thermometer of src/logs/thermometer.js: the listeners are kept in a
\* Set and called by notifyListeners, checkThresholds takes the sample as
\* its argument.  A listener is "ok" (a function that returns), "throws"
\* (a function that throws) or "value" (an entry that is no function).
\* ---------------------------------------------------------------------
LogsListenerKinds == {"ok", "throws", "value"}

inMargin(threshold, cur) ==
    /\ JsLe(cur, threshold.alertTemp + threshold.fluctuation)
    /\ JsGe(cur, threshold.alertTemp - threshold.fluctuation)

createAlertEvent(cur, id, threshold) ==
    [threshold |-> id, tempC |-> cur, tempF |-> toFahrenheit(cur),
     direction |-> threshold.direction]

\* faulty variant: the first listener that throws ends the delivery
notifyListeners_Break(ls, event) ==
    LET last == IF FirstThrowing(ls) = 0 THEN Len(ls) ELSE FirstThrowing(ls)
        called == SelectSeq([l \in 1..last |-> l], LAMBDA l : ls[l] # "value")
    IN  [calls |-> [k \in 1..Len(called) |->
                       [listener |-> called[k], event |-> event]],
         notifiedCount |-> Len(SelectSeq(called, LAMBDA l : ls[l] = "ok"))]

\* notifyListeners(event): calls is the sequence of listener invocations,
\* notifiedCount the value returned
notifyListeners(ls, event) ==
    LET called == SelectSeq([l \in 1..Len(ls) |-> l],
                            LAMBDA l : ls[l] # "value")
    IN  [calls |-> [k \in 1..Len(called) |->
                       [listener |-> called[k], event |-> event]],
         notifiedCount |-> Len(SelectSeq(called, LAMBDA l : ls[l] = "ok"))]

\* one iteration of the loop of checkThresholds(currentTemp); prev is the
\* local previousTemp read before the loop
LogsCheckOne(st, id, prev, cur) ==
    LET threshold == st.objs[id]
        withinMargin == inMargin(threshold, cur)
    IN  IF ~threshold.reached /\ withinMargin
        THEN IF \/ threshold.direction = "both"
                \/ (threshold.direction = "up"
                      /\ JsLt(prev, threshold.alertTemp))
                \/ (threshold.direction = "down"
                      /\ JsGt(prev, threshold.alertTemp))
             THEN LET event == createAlertEvent(cur, id, threshold)
                      sent == notifyListeners(st.listeners, event)
                  IN  [st EXCEPT !.objs[id].reached = TRUE,
                                 !.events = Append(@, event),
                                 !.delivered = @ \o sent.calls]
             ELSE st
        ELSE IF threshold.reached /\ ~withinMargin
             THEN [st EXCEPT !.objs[id].reached = FALSE]
             ELSE st

RECURSIVE LogsCheckLoop(_, _, _, _, _)
LogsCheckLoop(st, ths, k, prev, cur) ==
    IF k > Len(ths) THEN st
    ELSE LogsCheckLoop(LogsCheckOne(st, ths[k], prev, cur),
                       ths, k + 1, prev, cur)

\* checkThresholds(currentTemp); this.currentTemp is never assigned
LogsCheckThresholds ==
    /\ \E cur \in Samples :
          /\ arg' = cur
          /\ IF Len(thresholds) = 0
             THEN /\ result' = Threw("No thresholds defined")
                  /\ events' = <<>>
                  /\ delivered' = <<>>
                  /\ UNCHANGED <<objs, previousTemp>>
             ELSE LET st == LogsCheckLoop(
                                [objs |-> objs, events |-> <<>>,
                                 delivered |-> <<>>,
                                 listeners |-> listeners],
                                thresholds, 1, previousTemp, cur)
                  IN  /\ objs' = st.objs
                      /\ events' = st.events
                      /\ delivered' = st.delivered
                      /\ previousTemp' = cur
                      /\ result' = Returned(Undefined)
    /\ op' = "checkThresholds"
    /\ sourceCalls' = 0
    /\ UNCHANGED <<thresholds, currentTemp, listeners>>
    /\ UNCHANGED demoVars
    /\ UNCHANGED extVars

\* notifyListeners(event) called with an event of the first threshold
LogsNotifyListeners ==
    /\ Len(thresholds) > 0
    /\ \E cur \in Samples :
          LET event == createAlertEvent(cur, thresholds[1], objs[thresholds[1]])
              sent == notifyListeners(listeners, event)
          IN  /\ events' = <<event>>
              /\ delivered' = sent.calls
              /\ result' = Returned(sent.notifiedCount)
    /\ op' = "notifyListeners"
    /\ arg' = Undefined
    /\ sourceCalls' = 0
    /\ UNCHANGED <<thermVars, listeners>>
    /\ UNCHANGED demoVars
    /\ UNCHANGED extVars

\* registerListener(listener) with a listener that is not yet in the Set
LogsRegisterListener ==
    /\ Len(listeners) < MaxListeners
    /\ \E kind \in LogsListenerKinds : listeners' = Append(listeners, kind)
    /\ op' = "registerListener"
    /\ arg' = Undefined
    /\ result' = Returned(Undefined)
    /\ sourceCalls' = 0
    /\ events' = <<>>
    /\ delivered' = <<>>
    /\ UNCHANGED thermVars
    /\ UNCHANGED demoVars
    /\ UNCHANGED extVars

\* the function returned by registerListener: the listener leaves the Set
LogsUnregister ==
    /\ \E l \in 1..Len(listeners) :
          listeners' = SubSeq(listeners, 1, l - 1)
                          \o SubSeq(listeners, l + 1, Len(listeners))
    /\ op' = "unregister"
    /\ arg' = Undefined
    /\ result' = Returned(Undefined)
    /\ sourceCalls' = 0
    /\ events' = <<>>
    /\ delivered' = <<>>
    /\ UNCHANGED thermVars
    /\ UNCHANGED demoVars
    /\ UNCHANGED extVars

\* addThreshold(new Threshold(...)): pushed without validation
LogsAddThreshold ==
    /\ Len(thresholds) < MaxThresholds
    /\ \E args \in TwoArgs :
          /\ objs' = Append(objs, Threshold(args[1], args[2], args[3]))
          /\ thresholds' = Append(thresholds, Len(objs) + 1)
    /\ op' = "addThreshold"
    /\ arg' = Undefined
    /\ result' = Returned(Undefined)
    /\ sourceCalls' = 0
    /\ events' = <<>>
    /\ delivered' = <<>>
    /\ UNCHANGED <<currentTemp, previousTemp, listeners>>
    /\ UNCHANGED demoVars
    /\ UNCHANGED extVars

NextLogs ==
    \/ LogsCheckThresholds
    \/ LogsNotifyListeners
    \/ LogsRegisterListener
    \/ LogsUnregister
    \/ LogsAddThreshold

SpecLogs == Init /\ [][NextLogs]_vars

\* ---------------------------------------------------------------------
\* new Threshold(alertTemp, fluctuation, direction) with arbitrary arguments;
\* an instance that was constructed is put on the heap
\* ---------------------------------------------------------------------
Construct ==
    /\ Len(objs) < MaxCtor
    /\ \E alertTemp \in CtorTemps, fluctuation \in CtorFluctuations,
          direction \in CtorDirections :
          LET made == NewThreshold(alertTemp, fluctuation, direction)
          IN  /\ arg' = <<alertTemp, fluctuation, direction>>
              /\ IF made.kind = "returned"
                 THEN /\ objs' = Append(objs, made.instance)
                      /\ result' = Returned(Len(objs) + 1)
                 ELSE /\ objs' = objs
                      /\ result' = Threw(made.error)
    /\ op' = "new Threshold"
    /\ sourceCalls' = 0
    /\ events' = <<>>
    /\ delivered' = <<>>
    /\ UNCHANGED <<thresholds, currentTemp, previousTemp, listeners>>
    /\ UNCHANGED demoVars
    /\ UNCHANGED extVars

NextCtor == Construct

SpecCtor == Init /\ [][NextCtor]_vars

\* ---------------------------------------------------------------------
\* Thermometer._readTemperature(retries) called on its own, as the test
\* suite calls it, over a source that reads a script cyclically
\* ---------------------------------------------------------------------
\* faulty variant: previousTemp is shifted before the source is read
ReadTemperatureBody_ShiftFirst(up, retries) ==
    LET read == ReadLoop(up, 0, retries)
    IN  /\ op' = "_readTemperature"
        /\ arg' = retries
        /\ sourceCalls' = read.calls
        /\ events' = <<>>
        /\ delivered' = <<>>
        /\ UNCHANGED <<objs, thresholds, listeners>>
        /\ previousTemp' = currentTemp
        /\ IF read.kind = "returned"
           THEN /\ currentTemp' = read.value
                /\ result' = Returned(read.value)
           ELSE /\ result' = Threw(read.error)
                /\ UNCHANGED currentTemp

ReadTemperatureBody(up, retries) ==
    LET read == ReadLoop(up, 0, retries)
    IN  /\ op' = "_readTemperature"
        /\ arg' = retries
        /\ sourceCalls' = read.calls
        /\ events' = <<>>
        /\ delivered' = <<>>
        /\ UNCHANGED <<objs, thresholds, listeners>>
        /\ IF read.kind = "returned"
           THEN /\ previousTemp' = currentTemp
                /\ currentTemp' = read.value
                /\ result' = Returned(read.value)
           ELSE /\ result' = Threw(read.error)
                /\ UNCHANGED <<currentTemp, previousTemp>>

\* scripts of temperatures, invalid readings and failures of the source
ReadScripts ==
    UNION {[1..n -> Samples \cup InvalidReadings \cup {Throw}] : n \in 1..MaxLen}

InitRead ==
    /\ objs \in {<<>>, <<Threshold(0, 5, "both")>>}
    /\ thresholds = [k \in 1..Len(objs) |-> k]
    /\ currentTemp = Null
    /\ previousTemp = Null
    /\ op = "constructor"
    /\ result = Returned(Undefined)
    /\ sourceCalls = 0
    /\ events = <<>>
    /\ arg = Undefined
    /\ listeners = <<>>
    /\ delivered = <<>>
    /\ readings \in ReadScripts
    /\ srcIdx = 0
    /\ demoIter = 0
    /\ fed = <<>>
    /\ console = <<>>
    /\ other = NewThermometer
    /\ inflight = <<>>

ReadStep ==
    /\ demoIter < MaxReads
    /\ \E retries \in RetryArgs : ReadTemperatureBody(SourceUpcoming, retries)
    /\ srcIdx' = srcIdx + sourceCalls'
    /\ demoIter' = demoIter + 1
    /\ UNCHANGED <<readings, fed, console>>
    /\ UNCHANGED extVars

\* thermometer.checkThresholds() over the same source
CheckStep ==
    /\ demoIter < MaxReads
    /\ CheckThresholdsBody(SourceUpcoming)
    /\ srcIdx' = srcIdx + sourceCalls'
    /\ demoIter' = demoIter + 1
    /\ UNCHANGED <<readings, fed, console>>
    /\ UNCHANGED extVars

NextRead == ReadStep \/ CheckStep

SpecRead == InitRead /\ [][NextRead]_vars


\* ---------------------------------------------------------------------
\* Vocabulary of the properties
\* ---------------------------------------------------------------------
\* the tolerance band of a threshold, as the closed interval
InBand(c, t) ==
    t.alertTemp - t.fluctuation <= c /\ c <= t.alertTemp + t.fluctuation

\* consecutive samples p, c pass the target a upwards or downwards
Crossing(p, c, a) == (p < a /\ c >= a) \/ (p > a /\ c <= a)

Held(ths) == {ths[k] : k \in 1..Len(ths)}

AlertsOf(evs, id) == {k \in 1..Len(evs) : evs[k].threshold = id}

FiredIn(evs, id) == AlertsOf(evs, id) # {}

\* the entries of the console for instance id caused by samples a..b
ConsoleOf(id, a, b) ==
    {j \in 1..Len(console) :
        /\ console[j].event.threshold = id
        /\ a <= console[j].sample
        /\ console[j].sample <= b}

SameArgs(t, alertTemp, fluctuation, direction) ==
    /\ t.alertTemp = alertTemp
    /\ t.fluctuation = fluctuation
    /\ t.direction = direction

\* the Thermometer of the run holds one threshold with these arguments
Single(alertTemp, fluctuation, direction) ==
    /\ Len(objs) = 1
    /\ thresholds = <<1>>
    /\ SameArgs(objs[1], alertTemp, fluctuation, direction)

\* C1: between two alerts of one threshold, one sample outside its band
\* Any two 'threshold' events of a run that name the same threshold are
\* separated by at least one accepted sample that lies outside the band of
\* that threshold; in particular one sample never causes two of them, and
\* samples that stay inside the band after an alert cause no further alert.
C1_Hysteresis ==
    \A i \in 1..Len(console), j \in 1..Len(console) :
        (i < j /\ console[i].event.threshold = console[j].event.threshold)
            => \E k \in (console[i].sample + 1)..(console[j].sample - 1) :
                  ~InBand(fed[k], objs[console[i].event.threshold])

\* a threshold that fired, left its band and fired again
C1_Witness ==
    \E i \in 1..Len(console), j \in 1..Len(console) :
        /\ i < j
        /\ console[i].event.threshold = console[j].event.threshold
        /\ \E k \in (console[i].sample + 1)..(console[j].sample - 1) :
              InBand(fed[k], objs[console[i].event.threshold])
        /\ \E k \in (console[i].sample + 1)..(console[j].sample - 1) :
              ~InBand(fed[k], objs[console[i].event.threshold])

\* C2: the freezing-point readings fire Threshold(0, 0.5, "both") once
\* After the ten readings 1.5, 1.0, 0.5, 0.0, -0.5, 0.0, -0.5, 0.0, 0.5, 0.0
\* have been fed, one call each, to a fresh Thermometer holding the single
\* threshold Threshold(0, 0.5, "both"), exactly one alert has been emitted.
C2_FreezingOnce ==
    (/\ readings = FreezingReadings
     /\ Single(0, 5, "both")
     /\ demoIter = Len(FreezingReadings))
        => Len(console) = 1

C2_Witness ==
    /\ readings = FreezingReadings
    /\ Single(0, 5, "both")
    /\ demoIter = Len(FreezingReadings)
    /\ fed = FreezingReadings
    /\ Len(console) = 1
    /\ console[1].event.tempC = 0

\* C3: re-arming of Threshold(10, 0.5, "up") on 9, 10.2, 12, 9.8, 10.3
\* A fresh Thermometer holding the single threshold Threshold(10, 0.5, "up")
\* that is fed 9, 10.2, 12, 9.8, 10.3 emits exactly two alerts, at 10.2 and
\* at 10.3; the sample 12 re-arms the threshold and 9.8 does not fire.
C3_Rearm ==
    (readings = RearmReadings /\ Single(100, 5, "up"))
        => /\ demoIter = 3 => (~objs[1].reached /\ Len(console) = 1)
           /\ demoIter = 4 => (~objs[1].reached /\ Len(console) = 1)
           /\ demoIter = 5 =>
                 /\ Len(console) = 2
                 /\ console[1].sample = 2 /\ console[1].event.tempC = 102
                 /\ console[2].sample = 5 /\ console[2].event.tempC = 103

C3_Witness ==
    /\ readings = RearmReadings
    /\ Single(100, 5, "up")
    /\ demoIter = 5
    /\ fed = RearmReadings
    /\ Len(console) = 2


\* samples a..b of the run climb through the band of threshold t: strictly
\* increasing, the first below the band, the last above it, one inside it
Climb(a, b, t) ==
    /\ a < b
    /\ \A k \in a..(b - 1) : fed[k] < fed[k + 1]
    /\ fed[a] < t.alertTemp - t.fluctuation
    /\ fed[b] > t.alertTemp + t.fluctuation
    /\ \E k \in a..b : InBand(fed[k], t)

\* C4 as stated: one climb through the band of a "both" threshold, one alert
\* For every threshold with direction "both" and every run of accepted
\* samples that increases strictly from below its band to above its band
\* with a sample inside the band, exactly one alert of that threshold is
\* caused by the samples of the run.
C4_Original ==
    \A id \in 1..Len(objs), a \in 1..Len(fed), b \in 1..Len(fed) :
        (objs[id].direction = "both" /\ Climb(a, b, objs[id]))
            => Cardinality(ConsoleOf(id, a, b)) = 1

\* C4 amended: one alert when the climb has an in-band sample at or above
\* alertTemp, none otherwise
\* For every threshold with direction "both" and every run of accepted
\* samples that increases strictly from below its band to above its band
\* with a sample inside the band, the samples of the run cause exactly one
\* alert of that threshold if one of the in-band samples is at or above
\* alertTemp, and no alert if all in-band samples are below alertTemp.
C4_ClimbFiresAtTarget ==
    \A id \in 1..Len(objs), a \in 1..Len(fed), b \in 1..Len(fed) :
        (objs[id].direction = "both" /\ Climb(a, b, objs[id]))
            => Cardinality(ConsoleOf(id, a, b)) =
                  IF \E k \in a..b : /\ InBand(fed[k], objs[id])
                                     /\ fed[k] >= objs[id].alertTemp
                  THEN 1 ELSE 0

\* a climb of three samples, the middle one at the target
C4_Witness ==
    \E id \in 1..Len(objs), a \in 1..Len(fed), b \in 1..Len(fed) :
        /\ objs[id].direction = "both"
        /\ Climb(a, b, objs[id])
        /\ b = a + 2
        /\ fed[a + 1] = objs[id].alertTemp
        /\ Cardinality(ConsoleOf(id, a, b)) = 1

\* C5: the first accepted sample fires nothing
\* While the Thermometer has accepted exactly one sample (previousTemp is
\* still null), no alert has been emitted by the call that accepted it and
\* no threshold is disarmed.
C5_FirstSampleSilent ==
    (previousTemp = Null /\ currentTemp # Null)
        => /\ events = <<>>
           /\ \A id \in 1..Len(objs) : ~objs[id].reached

\* C6: "up" and "down" thresholds fire only on a crossing of alertTemp
\* Every alert emitted by a call whose previous sample p is present and
\* whose accepted sample is c satisfies p < alertTemp and c >= alertTemp
\* when its threshold has direction "up", and p > alertTemp and
\* c <= alertTemp when its threshold has direction "down".
C6_UpDownCross ==
    \A k \in 1..Len(events) :
        LET t == objs[events[k].threshold]
            p == previousTemp
            c == events[k].tempC
        IN  p # Null =>
               /\ t.direction = "up" => (p < t.alertTemp /\ c >= t.alertTemp)
               /\ t.direction = "down" => (p > t.alertTemp /\ c <= t.alertTemp)

\* this step is a call of checkThresholds that accepted a sample while a
\* previous sample was present
AcceptedStep ==
    /\ op' = "checkThresholds"
    /\ result'.kind = "returned"
    /\ currentTemp # Null

\* C7: a "both" threshold fires exactly on an armed in-band crossing
\* In every call that accepts a sample c while a previous sample p is
\* present, a held threshold with direction "both" emits an alert if and
\* only if it is armed at the call, c is inside its band, and
\* (p < alertTemp and c >= alertTemp) or (p > alertTemp and c <= alertTemp).
C7_BothFiresIff ==
    [][AcceptedStep =>
        \A id \in Held(thresholds) :
            objs[id].direction = "both" =>
                (FiredIn(events', id) <=>
                    /\ ~objs[id].reached
                    /\ InBand(currentTemp', objs[id])
                    /\ Crossing(currentTemp, currentTemp', objs[id].alertTemp))]_vars

\* a "both" threshold has just fired on a downward crossing
C7_Witness ==
    /\ op = "checkThresholds"
    /\ previousTemp # Null
    /\ \E k \in 1..Len(events) :
          /\ events[k].direction = "both"
          /\ previousTemp > objs[events[k].threshold].alertTemp
          /\ currentTemp <= objs[events[k].threshold].alertTemp

\* C8 as stated: every crossing of an armed "both" threshold fires once
\* In every call that accepts a sample c while a previous sample p is
\* present, a held armed threshold with direction "both" for which
\* (p < alertTemp and c >= alertTemp) or (p > alertTemp and c <= alertTemp)
\* emits exactly one alert.
C8_Original ==
    [][AcceptedStep =>
        \A id \in Held(thresholds) :
            (/\ objs[id].direction = "both"
             /\ ~objs[id].reached
             /\ Crossing(currentTemp, currentTemp', objs[id].alertTemp))
                => Cardinality(AlertsOf(events', id)) = 1]_vars

\* C8 amended: every crossing that lands inside the band fires once
\* In every call that accepts a sample c while a previous sample p is
\* present, a held armed threshold with direction "both" for which c is
\* inside the band and (p < alertTemp and c >= alertTemp) or
\* (p > alertTemp and c <= alertTemp) emits exactly one alert, carrying c,
\* and is disarmed by the call; while it is disarmed and c is inside the
\* band it emits no alert and stays disarmed.
C8_OncePerCrossing ==
    [][AcceptedStep =>
        \A id \in Held(thresholds) :
            objs[id].direction = "both" =>
                /\ (/\ ~objs[id].reached
                    /\ InBand(currentTemp', objs[id])
                    /\ Crossing(currentTemp, currentTemp', objs[id].alertTemp))
                      => /\ Cardinality(AlertsOf(events', id)) = 1
                         /\ \A k \in AlertsOf(events', id) :
                               events'[k].tempC = currentTemp'
                         /\ objs'[id].reached
                /\ (objs[id].reached /\ InBand(currentTemp', objs[id]))
                      => /\ AlertsOf(events', id) = {}
                         /\ objs'[id].reached]_vars

\* a disarmed "both" threshold has just kept silent on a crossing inside
\* its band
C8_Witness ==
    /\ op = "checkThresholds"
    /\ result.kind = "returned"
    /\ previousTemp # Null
    /\ \E id \in Held(thresholds) :
          /\ objs[id].direction = "both"
          /\ objs[id].reached
          /\ events = <<>>
          /\ InBand(currentTemp, objs[id])
          /\ Crossing(previousTemp, currentTemp, objs[id].alertTemp)

\* C9: arming life cycle
\* In every call of a run that accepts a sample c: a threshold that emits
\* an alert was armed and is disarmed by that call; a disarmed threshold is
\* armed again by the call if c lies outside its band and stays disarmed if
\* c lies inside its band; an armed threshold that emits no alert stays
\* armed.
C9_ArmingLifeCycle ==
    [][Len(fed') = Len(fed) + 1 =>
        \A id \in Held(thresholds) :
            LET c == currentTemp'
            IN  /\ FiredIn(events', id) => (~objs[id].reached /\ objs'[id].reached)
                /\ (objs[id].reached /\ ~InBand(c, objs[id])) => ~objs'[id].reached
                /\ (objs[id].reached /\ InBand(c, objs[id])) => objs'[id].reached
                /\ (~objs[id].reached /\ ~FiredIn(events', id)) => ~objs'[id].reached]_vars

\* a threshold that fired earlier in the run is armed again, the last
\* sample lying outside its band
C9_Witness ==
    \E id \in Held(thresholds) :
        /\ ConsoleOf(id, 1, Len(fed)) # {}
        /\ ~objs[id].reached
        /\ ~InBand(currentTemp, objs[id])

\* C10: checkThresholds without thresholds
\* A call of checkThresholds while the collection is empty throws
\* "No thresholds defined", does not invoke the source and leaves
\* previousTemp and currentTemp unchanged; a call while the collection is
\* not empty does not throw that error.
C10_NoThresholdsDefined ==
    [][op' = "checkThresholds" =>
        IF Len(thresholds) = 0
        THEN /\ result' = Threw("No thresholds defined")
             /\ sourceCalls' = 0
             /\ previousTemp' = previousTemp
             /\ currentTemp' = currentTemp
        ELSE result'.error # "No thresholds defined"]_vars

\* the call has failed on the empty collection
C10_Witness ==
    /\ op = "checkThresholds"
    /\ thresholds = <<>>
    /\ result = Threw("No thresholds defined")
    /\ sourceCalls = 0


\* ---------------------------------------------------------------------
\* C11: a reading that is not a number, or is NaN, changes neither
\* previousTemp nor currentTemp nor a reached flag and causes no event.  A
\* call all of whose readings are invalid fails after maxRetries readings and
\* leaves the Thermometer as it was; a call that changes the Thermometer has
\* stored a temperature as currentTemp and the sample accepted before it, not
\* a skipped reading, as previousTemp; events are emitted for that
\* temperature only.
\* ---------------------------------------------------------------------
C11_InvalidReadingInert ==
    [][op' = "checkThresholds" =>
          /\ result'.error = "No valid temperature reading" =>
                /\ sourceCalls' = maxRetries
                /\ UNCHANGED thermVars
                /\ events' = <<>>
          /\ thermVars' # thermVars =>
                /\ currentTemp' \in Samples
                /\ previousTemp' = currentTemp
          /\ previousTemp' \notin {NaN, Undefined}
          /\ currentTemp' \notin {NaN, Undefined}
          /\ currentTemp' = Null => currentTemp = Null
          /\ \A k \in 1..Len(events') :
                events'[k].tempC = currentTemp' /\ currentTemp' \in Samples
      ]_vars

\* a Thermometer that has accepted samples and holds a disarmed threshold
\* survives a call of maxRetries invalid readings
C11_Witness ==
    /\ op = "checkThresholds"
    /\ result.error = "No valid temperature reading"
    /\ sourceCalls = maxRetries
    /\ currentTemp \in Samples
    /\ previousTemp \in Samples
    /\ \E id \in Held(thresholds) : objs[id].reached

C13_ReadTerminates ==
    [][op' = "_readTemperature" =>
          LET up == SourceUpcoming
              retries == arg'
          IN  /\ sourceCalls' <= retries
              /\ (\A j \in 1..retries : up[j] \in InvalidReadings) =>
                    /\ result' = Threw("No valid temperature reading")
                    /\ sourceCalls' = retries
                    /\ UNCHANGED <<currentTemp, previousTemp>>
              /\ \A j \in 1..retries :
                    (/\ up[j] \in Samples
                     /\ \A i \in 1..(j - 1) : up[i] \in InvalidReadings) =>
                        /\ result' = Returned(up[j])
                        /\ sourceCalls' = j
                        /\ currentTemp' = up[j]
                        /\ previousTemp' = currentTemp
      ]_vars

\* the default number of attempts, all of them invalid
C13_Witness ==
    /\ op = "_readTemperature"
    /\ arg = maxRetries
    /\ sourceCalls = maxRetries
    /\ result = Threw("No valid temperature reading")

\* ---------------------------------------------------------------------
\* C14: when the source throws during a checkThresholds call (after invalid
\* readings or at once), the call ends with the error "Temperature source
\* error", has invoked the source up to the failing invocation and not
\* again, emits no event, calls no listener and leaves thresholds,
\* previousTemp, currentTemp and every reached flag as they were.
\* ---------------------------------------------------------------------
C14_SourceFailure ==
    [][LET up == SourceUpcoming
       IN  \A j \in 1..maxRetries :
              (/\ up[j] = Throw
               /\ \A i \in 1..(j - 1) : up[i] \in InvalidReadings) =>
                  /\ op' = "checkThresholds"
                  /\ result' = Threw("Temperature source error")
                  /\ sourceCalls' = j
                  /\ srcIdx' = srcIdx + j
                  /\ events' = <<>>
                  /\ delivered' = <<>>
                  /\ UNCHANGED thermVars
                  /\ UNCHANGED <<fed, console>>
      ]_vars

\* the source fails on its second invocation of a call, after samples were
\* accepted and a threshold has fired
C14_Witness ==
    /\ op = "checkThresholds"
    /\ result = Threw("Temperature source error")
    /\ sourceCalls = 2
    /\ currentTemp \in Samples
    /\ previousTemp \in Samples
    /\ \E id \in Held(thresholds) : objs[id].reached

C16_DeliveredToAll ==
    op = "checkThresholds" =>
        delivered = [d \in 1..(Len(events) * Len(listeners)) |->
                        [listener |-> ((d - 1) % Len(listeners)) + 1,
                         event |-> events[((d - 1) \div Len(listeners)) + 1]]]

\* ---------------------------------------------------------------------
\* C19: a listener that throws changes nothing but itself: the call that
\* accepted a sample ends with the reached flags, the emitted events and
\* the listener calls it would have had if every listener had returned.
\* ---------------------------------------------------------------------
C19_ListenerIsolation ==
    [][(/\ op' = "checkThresholds"
        /\ result'.kind = "returned" \/ result'.error = "listener error") =>
          LET quiet == CheckLoop([objs |-> objs, events |-> <<>>,
                                  delivered |-> <<>>, thrown |-> FALSE,
                                  listeners |-> [l \in 1..Len(listeners) |-> "ok"]],
                                 thresholds, 1, currentTemp, currentTemp')
          IN  /\ objs' = quiet.objs
              /\ events' = quiet.events
              /\ delivered' = quiet.delivered
      ]_vars

\* ---------------------------------------------------------------------
\* C17: every event of a call carries the instance that fired (a threshold
\* of the collection, now disarmed), the accepted sample currentTemp as
\* tempC, the direction configured on that instance, and tempF = tempC * 9 /
\* 5 + 32 (tempC in tenths of a degree, tempF in fiftieths: 0 C is 32 F and
\* 10 C is 50 F).
\* ---------------------------------------------------------------------
C17_EventPayload ==
    /\ toFahrenheit(0) = 32 * 50
    /\ toFahrenheit(10 * 10) = 50 * 50
    /\ \A k \in 1..Len(events) :
          LET e == events[k]
          IN  /\ e.threshold \in Held(thresholds)
              /\ objs[e.threshold].reached
              /\ e.tempC = currentTemp
              /\ e.direction = objs[e.threshold].direction
              /\ 5 * e.tempF = 9 * (5 * e.tempC) + 32 * (5 * 50)

\* an alert for a sample of 0 C that differs from the alert temperature
C17_Witness ==
    \E k \in 1..Len(events) :
        /\ events[k].tempC = 0
        /\ events[k].tempF = 32 * 50
        /\ objs[events[k].threshold].alertTemp # 0

\* ---------------------------------------------------------------------
\* C18: a checkThresholds call that ends without an error returns the
\* sample it accepted, the value of currentTemp.
\* ---------------------------------------------------------------------
C18_ReturnsSample ==
    op = "checkThresholds" /\ result.kind = "returned" =>
        result.value = currentTemp

\* ---------------------------------------------------------------------
\* C20: new Threshold(alertTemp, fluctuation, direction) throws unless
\* alertTemp and fluctuation are finite numbers and direction is "up",
\* "down" or "both"; when it succeeds the instance holds the three values
\* as given and reached = false.
\* ---------------------------------------------------------------------
C20_FiniteOnly ==
    op = "new Threshold" =>
        LET Finite(x) == x \notin {Null, Undefined, NaN, Infinity, NegInfinity}
        IN  IF /\ Finite(arg[1])
               /\ Finite(arg[2])
               /\ arg[3] \in {"up", "down", "both"}
            THEN /\ result.kind = "returned"
                 /\ objs[result.value] =
                        [alertTemp |-> arg[1], fluctuation |-> arg[2],
                         direction |-> arg[3], reached |-> FALSE]
            ELSE result.kind = "threw"

C22_ClosedBand ==
    \A id \in 1..Len(objs) : \A c \in Samples :
        LET T == objs[id]
        IN  /\ _isWithinFluctuation(c, T) <=>
                  (T.alertTemp - T.fluctuation <= c
                      /\ c <= T.alertTemp + T.fluctuation)
            /\ c = T.alertTemp + T.fluctuation => _isWithinFluctuation(c, T)
            /\ c = T.alertTemp - T.fluctuation => _isWithinFluctuation(c, T)
            /\ T.fluctuation = 0 =>
                  (_isWithinFluctuation(c, T) <=> c = T.alertTemp)

\* a threshold with fluctuation 0 has fired on a sample equal to alertTemp
C22_Witness ==
    \E k \in 1..Len(events) :
        LET T == objs[events[k].threshold]
        IN  /\ T.fluctuation = 0
            /\ T.reached
            /\ events[k].tempC = T.alertTemp
            /\ currentTemp = T.alertTemp

\* ---------------------------------------------------------------------
\* C23: a checkThresholds call evaluates the thresholds against the pair
\* (previousTemp, currentTemp) that the storing of its own sample produced,
\* also when another call is in flight: its loop leaves the reached flags
\* and emits the events that this pair gives.
\* ---------------------------------------------------------------------
C23_OwnPair ==
    [][\A c \in 1..Len(inflight) :
          (inflight[c].pc = "stored" /\ inflight'[c].pc = "idle") =>
              LET own == CheckLoop([objs |-> objs, events |-> <<>>,
                                    delivered |-> <<>>, thrown |-> FALSE,
                                    listeners |-> listeners],
                                   thresholds, 1,
                                   inflight[c].prev, inflight[c].temp)
              IN  /\ objs' = own.objs
                  /\ events' = own.events
      ]_vars

C24_InsertionOrder ==
    LET FirstPos(id) ==
            CHOOSE k \in 1..Len(thresholds) :
                /\ thresholds[k] = id
                /\ \A j \in 1..(k - 1) : thresholds[j] # id
    IN  \A j, k \in 1..Len(events) :
            /\ events[j].threshold \in Held(thresholds)
            /\ j < k =>
                  FirstPos(events[j].threshold) < FirstPos(events[k].threshold)

\* two thresholds, added one after the other, have fired on one sample
C24_Witness ==
    /\ op = "checkThresholds"
    /\ Len(events) = 2
    /\ Len(thresholds) = 2
    /\ events[1].threshold = thresholds[1]
    /\ events[2].threshold = thresholds[2]
    /\ events[1].tempC = events[2].tempC

\* ---------------------------------------------------------------------
\* C25: after any sequence of checkThresholds and _readTemperature calls
\* made one after the other, currentTemp is the last temperature among the
\* readings the source has yielded so far and previousTemp the temperature
\* before it; each is null while there is no such temperature.  Invalid
\* readings, failures of the source and calls that throw "No thresholds
\* defined" (which do not invoke the source) count for nothing.
\* ---------------------------------------------------------------------
C25_SampleHistory ==
    LET IsTemperature(x) == x \in Samples
        yielded == [k \in 1..srcIdx |-> readings[((k - 1) % Len(readings)) + 1]]
        accepted == SelectSeq(yielded, IsTemperature)
        n == Len(accepted)
    IN  /\ currentTemp = IF n = 0 THEN Null ELSE accepted[n]
        /\ previousTemp = IF n <= 1 THEN Null ELSE accepted[n - 1]

\* two temperatures were accepted, an invalid reading and a failed call
\* came after them
C25_Witness ==
    /\ result.kind = "threw"
    /\ srcIdx >= 3
    /\ currentTemp \in Samples
    /\ previousTemp \in Samples
    /\ currentTemp # previousTemp
    /\ readings[((srcIdx - 1) % Len(readings)) + 1] \notin Samples

\* ---------------------------------------------------------------------
\* C26: a readTemperature call whose source throws (the call returns null)
\* or yields a value that is no number, or NaN (the call throws), leaves
\* previousTemp and currentTemp as they were.
\* ---------------------------------------------------------------------
C26_FailedReadInert ==
    [][(/\ op' = "readTemperature"
        /\ result' = Returned(Null) \/ result'.kind = "threw") =>
          UNCHANGED <<previousTemp, currentTemp>>
      ]_vars

\* ---------------------------------------------------------------------
\* C27: in src/logs/thermometer.js, notifyListeners calls every registered
\* function listener exactly once per event, also when some of them throw,
\* returns the number of listeners that returned, and lets no exception
\* out; checkThresholds therefore evaluates every held threshold and ends
\* with previousTemp equal to the sample it was given.
\* ---------------------------------------------------------------------
C27_NotifyIsolated ==
    [][(op' \in {"notifyListeners", "checkThresholds"} /\ Len(thresholds) > 0) =>
        /\ result'.kind = "returned"
        /\ \A e \in 1..Len(events'), l \in 1..Len(listeners) :
              Cardinality({k \in 1..Len(delivered') :
                             delivered'[k] = [listener |-> l,
                                              event |-> events'[e]]})
                 = IF listeners[l] = "value" THEN 0 ELSE 1
        /\ Len(delivered') = Len(events')
              * Cardinality({l \in 1..Len(listeners) : listeners[l] # "value"})
        /\ op' = "notifyListeners" =>
              result'.value =
                 Cardinality({l \in 1..Len(listeners) : listeners[l] = "ok"})
        /\ op' = "checkThresholds" =>
              /\ previousTemp' = arg'
              /\ \A id \in Held(thresholds) :
                    /\ (objs[id].reached /\ ~InBand(arg', objs[id]))
                          => ~objs'[id].reached
                    /\ (/\ ~objs[id].reached
                        /\ InBand(arg', objs[id])
                        /\ objs[id].direction = "both")
                          => objs'[id].reached
                    /\ (~objs[id].reached /\ objs'[id].reached)
                          => FiredIn(events', id)
      ]_vars

\* a listener that throws is registered before one that returns, and one
\* checkThresholds call fired two thresholds
C27_Witness ==
    /\ op = "checkThresholds"
    /\ listeners = <<"throws", "ok">>
    /\ Len(events) = 2
    /\ Len(delivered) = 4
    /\ previousTemp = arg

\* ---------------------------------------------------------------------
\* C28: after a checkThresholds call that completed normally, every held
\* threshold whose reached flag is true has the current sample inside its
\* band [alertTemp - fluctuation, alertTemp + fluctuation].
\* ---------------------------------------------------------------------
C28_ReachedInBand ==
    (op = "checkThresholds" /\ result.kind = "returned") =>
        \A id \in Held(thresholds) :
            objs[id].reached => InBand(currentTemp, objs[id])

\* a call completed normally and left a held threshold disarmed, after an
\* earlier sample had been accepted
C28_Witness ==
    /\ op = "checkThresholds"
    /\ result.kind = "returned"
    /\ previousTemp \in Samples
    /\ \E id \in Held(thresholds) : objs[id].reached

\* ---------------------------------------------------------------------
\* C29: for a fixed sequence of accepted samples and listeners that return,
\* the samples at which a threshold fires depend on its own alertTemp,
\* fluctuation and direction only: they are those at which a Thermometer
\* holding that threshold alone fires it, whatever other instances are
\* held and in whatever order.
\* ---------------------------------------------------------------------
\* the samples from the k-th on at which threshold t, held alone, fires
RECURSIVE SoloFires(_, _, _, _)
SoloFires(t, samples, k, reached) ==
    IF k > Len(samples) THEN {}
    ELSE LET prev == IF k = 1 THEN Null ELSE samples[k - 1]
             st == CheckOne([objs |-> <<[t EXCEPT !.reached = reached]>>,
                             events |-> <<>>, delivered |-> <<>>,
                             thrown |-> FALSE, listeners |-> <<>>],
                            1, prev, samples[k])
         IN  (IF st.events # <<>> THEN {k} ELSE {})
                \cup SoloFires(t, samples, k + 1, st.objs[1].reached)

FiresOf(id) == {console[j].sample : j \in ConsoleOf(id, 1, Len(fed))}

C29_Independent ==
    \A id \in Held(thresholds) :
        FiresOf(id) = SoloFires(objs[id], fed, 1, FALSE)

\* two instances are held, both fired, and not at the same samples
C29_Witness ==
    \E i \in Held(thresholds), j \in Held(thresholds) :
        /\ i # j
        /\ FiresOf(i) # {}
        /\ FiresOf(j) # {}
        /\ FiresOf(i) # FiresOf(j)
        /\ FiresOf(i) \cap FiresOf(j) # {}

====
